---- MODULE Spec2Model ----
(***************************************************************************)
(* YaTube (yatube/posts/views.py): the views of the blogging site as a     *)
(* state machine over the relational store (posts, comments, follow rows), *)
(* the page cache in front of index, and the clock.  One action per view;  *)
(* a request's client, URL arguments and form data are the action's        *)
(* inputs, the HTTP response is the variable `response`.                  *)
(***************************************************************************)
EXTENDS Integers, Sequences, FiniteSets, TLC

VARIABLES
    posts,      \* table Post: row i is the post with id i (ids are never reused)
    comments,   \* table Comment, in insertion order
    follows,    \* table Follow as a bag: <<user, author>> -> number of rows
    inflight,   \* profile_follow requests between their check and their create
    cache,      \* cache_page store of index: URL -> entry
    now,        \* the clock, in seconds
    response    \* the last completed request and its response

vars == <<posts, comments, follows, inflight, cache, now, response>>
db == <<posts, comments, follows>>

---------------------------------------------------------------------------
(* Bounds of the model. *)
MaxPosts == 2
MaxComments == 2
MaxInFlight == 2
MaxTime == 20
TickSeconds == 10
MaxListing == 23

(* Program constants. *)
PAGINATOR_AMOUNT == 10
CACHE_SECONDS == 20

---------------------------------------------------------------------------
(* Users, groups and request inputs. *)
Anonymous == "AnonymousUser"
Users == {"author", "another_user"}
Clients == Users \cup {Anonymous}
Usernames == Users \cup {"ghost"}

NoGroup == "none"
Groups == {"test-slug", "empty-slug"}
Slugs == Groups \cup {"no-slug"}

NoImage == "none"
Images == {"small.jpg"}

Texts == {"text 1", "text 2"}

PostIds == 1..(MaxPosts + 1)

is_authenticated(user) == user \in Users

Pairs == Users \X Users
UserOrder == <<"author", "another_user">>

---------------------------------------------------------------------------
(* URLs. *)
IndexPath == "/"
CreatePath == "/create/"
FollowIndexPath == "/follow/"
LoginPath == "/auth/login/"
GroupPath(slug) == "/group/" \o slug \o "/"
ProfilePath(username) == "/profile/" \o username \o "/"
ProfileFollowPath(username) == "/profile/" \o username \o "/follow/"
ProfileUnfollowPath(username) == "/profile/" \o username \o "/unfollow/"
PostDetailPath(post_id) == "/posts/" \o ToString(post_id) \o "/"
PostEditPath(post_id) == "/posts/" \o ToString(post_id) \o "/edit/"
AddCommentPath(post_id) == "/posts/" \o ToString(post_id) \o "/comment/"

(* The page query parameter: absent, an integer, or text that is no integer. *)
NoPage == [kind |-> "absent", n |-> 0]
PageInt(k) == [kind |-> "int", n |-> k]
PageText == [kind |-> "text", n |-> 0]

QueryString(page) ==
    CASE page.kind = "absent" -> ""
      [] page.kind = "int" -> "?page=" \o ToString(page.n)
      [] OTHER -> "?page=abc"

---------------------------------------------------------------------------
(* Paginator(post_list, amount).get_page(page_number). *)
CeilDiv(a, b) == (a + b - 1) \div b

num_pages(count, amount) == IF count = 0 THEN 1 ELSE CeilDiv(count, amount)

get_page_number_or_first(page, count, amount) ==
    IF page.kind # "int" THEN 1
    ELSE IF page.n < 1 \/ page.n > num_pages(count, amount) THEN 1
    ELSE page.n

\* validate_number + get_page: a value that is no integer gives page 1, an
\* integer below 1 or above num_pages raises EmptyPage and gives the last page.
get_page_number(page, count, amount) ==
    IF page.kind # "int" THEN 1
    ELSE IF page.n < 1 THEN num_pages(count, amount)
    ELSE IF page.n > num_pages(count, amount) THEN num_pages(count, amount)
    ELSE page.n

page_slice_from_zero(post_list, number, amount) ==
    LET count == Len(post_list)
        bottom == number * amount
        top == IF bottom + amount >= count THEN count ELSE bottom + amount
    IN  SubSeq(post_list, bottom + 1, top)

\* Paginator.page(number): object_list[bottom:top]
page_slice(post_list, number, amount) ==
    LET count == Len(post_list)
        bottom == (number - 1) * amount
        top == IF bottom + amount >= count THEN count ELSE bottom + amount
    IN  SubSeq(post_list, bottom + 1, top)

paginator(page, post_list, amount) ==
    page_slice(post_list, get_page_number(page, Len(post_list), amount), amount)

---------------------------------------------------------------------------
(* Rows and querysets.  A listing is ordered newest first; `created` never  *)
(* decreases with the id, so that is the order of descending id.            *)
Post(id, author, text, group, image, created) ==
    [id |-> id, author |-> author, text |-> text, group |-> group,
     image |-> image, created |-> created]

Comment(author, post, text, created) ==
    [author |-> author, post |-> post, text |-> text, created |-> created]

Reverse(s) == [i \in 1..Len(s) |-> s[Len(s) + 1 - i]]

\* Post.objects.all()
Post_all(table) == Reverse(table)

\* group.posts.all()
Group_posts(table, slug) == SelectSeq(Reverse(table), LAMBDA p: p.group = slug)

\* author.posts.all()
Author_posts(table, username) ==
    SelectSeq(Reverse(table), LAMBDA p: p.author = username)

Post_comments_of_all(table, post_id) == table

\* post.comments.all()
Post_comments(table, post_id) == SelectSeq(table, LAMBDA c: c.post = post_id)

\* Follow.objects.filter(user=user, author=author): the number of rows
Follow_count(table, user, author) == table[<<user, author>>]

Follow_exists_once(table, user, author) == Follow_count(table, user, author) = 1

\* Follow.objects.filter(user=user, author=author).exists()
Follow_exists(table, user, author) == Follow_count(table, user, author) > 0

\* [x.author for x in Follow.objects.filter(user=user)]: a list with one
\* element per Follow row of the user, so an author followed twice is in it twice
Repeat(x, n) == [i \in 1..n |-> x]

RECURSIVE author_list(_, _, _)
author_list(table, user, k) ==
    IF k > Len(UserOrder) THEN <<>>
    ELSE Repeat(UserOrder[k], Follow_count(table, user, UserOrder[k]))
         \o author_list(table, user, k + 1)

author_set(table, user) == author_list(table, user, 1)

Range(s) == {s[i] : i \in 1..Len(s)}

\* a join over the Follow rows instead of a membership test: one result row
\* per (post, matching Follow row)
RECURSIVE Posts_joined(_, _)
Posts_joined(table, authors) ==
    IF table = <<>> THEN <<>>
    ELSE Repeat(table[Len(table)],
                Cardinality({i \in 1..Len(authors) :
                               authors[i] = table[Len(table)].author}))
         \o Posts_joined(SubSeq(table, 1, Len(table) - 1), authors)

\* Post.objects.filter(author__in=author_set): the posts whose author is an
\* element of the list, each post once
Posts_by_authors(table, authors) ==
    SelectSeq(Reverse(table), LAMBDA p: p.author \in Range(authors))

Group_exists_any(slug) == TRUE

\* get_object_or_404
Post_exists(table, post_id) == post_id \in 1..Len(table)
User_exists(username) == username \in Users
Group_exists(slug) == slug \in Groups

---------------------------------------------------------------------------
(* Forms.  A request carries a method and the submitted fields; a field     *)
(* that is not submitted is "" (text), NoGroup or NoImage.                  *)
Get == [method |-> "GET", text |-> "", group |-> NoGroup, image |-> NoImage]
PostData(text, group, image) ==
    [method |-> "POST", text |-> text, group |-> group, image |-> image]

PostRequests ==
    {Get} \cup {PostData(t, g, i) : t \in Texts \cup {""},
                                    g \in Groups \cup {NoGroup},
                                    i \in Images \cup {NoImage}}

CommentRequests == {Get} \cup {PostData(t, NoGroup, NoImage) : t \in Texts \cup {""}}

\* request.POST or None, files=request.FILES or None: the form is bound when
\* either is given
is_bound(request) ==
    /\ request.method = "POST"
    /\ request.text # "" \/ request.group # NoGroup \/ request.image # NoImage

\* PostForm.is_valid() / CommentForm.is_valid(): text is required
is_valid(request) == is_bound(request) /\ request.text # ""

---------------------------------------------------------------------------
(* Responses. *)
EmptyContext ==
    [page_obj |-> <<>>, post |-> <<>>, comments |-> <<>>, following |-> FALSE]

Response(op, user, path, status, location, template, context) ==
    [op |-> op, user |-> user, path |-> path, status |-> status,
     location |-> location, template |-> template, context |-> context]

render(op, user, path, template, context) ==
    Response(op, user, path, 200, "", template, context)

redirect(op, user, path, location) ==
    Response(op, user, path, 302, location, "", EmptyContext)

NotFound(op, user, path) ==
    Response(op, user, path, 404, "", "core/404.html", EmptyContext)

login_required_absent(user) == TRUE

\* @login_required: the view runs for an authenticated user only; anyone
\* else is sent to the login page with the requested path as `next`.
login_required(user) == is_authenticated(user)

redirect_to_login(op, user, path) ==
    redirect(op, user, path, LoginPath \o "?next=" \o path)

---------------------------------------------------------------------------
(* The page cache of index: @cache_page(20, key_prefix='index_page').       *)
FirstPage == {NoPage}
SitePages == {NoPage, PageInt(2)}
ListingPages == {NoPage, PageText} \cup {PageInt(k) : k \in -1..4}
IndexPages == {NoPage} \cup {PageInt(k) : k \in 1..3}
IndexUrl(page) == IndexPath \o QueryString(page)
CacheKeys == {IndexUrl(page) : page \in SitePages \cup IndexPages}

NoEntry == [stored |-> FALSE, context |-> EmptyContext, expires |-> 0]

cache_hit_never(store, key, time) == FALSE

\* cache.get(key): an entry is served until its expiry time is reached
cache_hit(store, key, time) == store[key].stored /\ time < store[key].expires

\* cache.set(key, response, timeout)
cache_set(store, key, context, time) ==
    [store EXCEPT ![key] =
        [stored |-> TRUE, context |-> context, expires |-> time + CACHE_SECONDS]]

---------------------------------------------------------------------------
Init ==
    /\ posts = <<>>
    /\ comments = <<>>
    /\ follows = [pair \in Pairs |-> 0]
    /\ inflight = [pair \in Pairs |-> 0]
    /\ cache = [key \in CacheKeys |-> NoEntry]
    /\ now = 0
    /\ response = Response("none", Anonymous, "", 0, "", "", EmptyContext)

---------------------------------------------------------------------------
(* The public views. *)
index_context(page) ==
    [EmptyContext EXCEPT
        !.page_obj = paginator(page, Post_all(posts), PAGINATOR_AMOUNT)]

index(user, page) ==
    LET key == IndexUrl(page) IN
    /\ IF cache_hit(cache, key, now)
       THEN /\ response' = render("index", user, key, "posts/index.html",
                                  cache[key].context)
            /\ UNCHANGED cache
       ELSE /\ response' = render("index", user, key, "posts/index.html",
                                  index_context(page))
            /\ cache' = cache_set(cache, key, index_context(page), now)
    /\ UNCHANGED <<posts, comments, follows, inflight, now>>

group_posts(user, slug, page) ==
    LET path == GroupPath(slug) \o QueryString(page) IN
    /\ response' =
         IF ~Group_exists(slug) THEN NotFound("group_posts", user, path)
         ELSE render("group_posts", user, path, "posts/group_list.html",
                [EmptyContext EXCEPT !.page_obj =
                    paginator(page, Group_posts(posts, slug), PAGINATOR_AMOUNT)])
    /\ UNCHANGED <<posts, comments, follows, inflight, cache, now>>

profile(user, username, page) ==
    LET path == ProfilePath(username) \o QueryString(page) IN
    /\ response' =
         IF ~User_exists(username) THEN NotFound("profile", user, path)
         ELSE render("profile", user, path, "posts/profile.html",
                [EmptyContext EXCEPT
                    !.page_obj = paginator(page, Author_posts(posts, username),
                                           PAGINATOR_AMOUNT),
                    !.following = /\ is_authenticated(user)
                                  /\ Follow_exists(follows, user, username)])
    /\ UNCHANGED <<posts, comments, follows, inflight, cache, now>>

post_detail(user, post_id) ==
    LET path == PostDetailPath(post_id) IN
    /\ response' =
         IF ~Post_exists(posts, post_id) THEN NotFound("post_detail", user, path)
         ELSE render("post_detail", user, path, "posts/post_detail.html",
                [EmptyContext EXCEPT
                    !.post = <<posts[post_id]>>,
                    !.comments = Post_comments(comments, post_id)])
    /\ UNCHANGED <<posts, comments, follows, inflight, cache, now>>

---------------------------------------------------------------------------
(* The views behind @login_required. *)

PostForm_save_without_files(instance, request) ==
    [instance EXCEPT !.text = request.text, !.group = request.group]

PostForm_save_keeps_group(instance, request) ==
    [instance EXCEPT !.text = request.text,
                     !.group = IF request.group # NoGroup THEN request.group ELSE @,
                     !.image = IF request.image # NoImage THEN request.image ELSE @]

PostForm_save_auto_now(instance, request) ==
    [instance EXCEPT !.text = request.text,
                     !.group = request.group,
                     !.image = IF request.image # NoImage THEN request.image ELSE @,
                     !.created = now]

\* form.save() of a PostForm: the submitted text and group replace the
\* instance's, the image only when a file was uploaded
PostForm_save(instance, request) ==
    [instance EXCEPT !.text = request.text,
                     !.group = request.group,
                     !.image = IF request.image # NoImage THEN request.image ELSE @]

is_author_unchecked(user, post) == TRUE

\* request.user != post.author
is_author(user, post) == user = post.author

NewPost(id, created) == Post(id, Anonymous, "", NoGroup, NoImage, created)

post_create(user, request) ==
    LET path == CreatePath IN
    IF ~login_required(user)
    THEN /\ response' = redirect_to_login("post_create", user, path)
         /\ UNCHANGED <<posts, comments, follows, inflight, cache, now>>
    ELSE IF is_valid(request)
    THEN /\ Len(posts) < MaxPosts
         /\ posts' = Append(posts,
                [PostForm_save(NewPost(Len(posts) + 1, now), request)
                    EXCEPT !.author = user])
         /\ response' = redirect("post_create", user, path, ProfilePath(user))
         /\ UNCHANGED <<comments, follows, inflight, cache, now>>
    ELSE /\ response' = render("post_create", user, path,
                               "posts/create_post.html", EmptyContext)
         /\ UNCHANGED <<posts, comments, follows, inflight, cache, now>>

post_edit(user, post_id, request) ==
    LET path == PostEditPath(post_id) IN
    IF ~login_required(user)
    THEN /\ response' = redirect_to_login("post_edit", user, path)
         /\ UNCHANGED <<posts, comments, follows, inflight, cache, now>>
    ELSE IF ~Post_exists(posts, post_id)
    THEN /\ response' = NotFound("post_edit", user, path)
         /\ UNCHANGED <<posts, comments, follows, inflight, cache, now>>
    ELSE IF ~is_author(user, posts[post_id])
    THEN /\ response' = redirect("post_edit", user, path, PostDetailPath(post_id))
         /\ UNCHANGED <<posts, comments, follows, inflight, cache, now>>
    ELSE IF is_valid(request)
    THEN /\ posts' = [posts EXCEPT ![post_id] = PostForm_save(@, request)]
         /\ response' = redirect("post_edit", user, path, PostDetailPath(post_id))
         /\ UNCHANGED <<comments, follows, inflight, cache, now>>
    ELSE /\ response' = render("post_edit", user, path, "posts/create_post.html",
                               [EmptyContext EXCEPT !.post = <<posts[post_id]>>])
         /\ UNCHANGED <<posts, comments, follows, inflight, cache, now>>

add_comment(user, post_id, request) ==
    LET path == AddCommentPath(post_id) IN
    IF ~login_required(user)
    THEN /\ response' = redirect_to_login("add_comment", user, path)
         /\ UNCHANGED <<posts, comments, follows, inflight, cache, now>>
    ELSE IF ~Post_exists(posts, post_id)
    THEN /\ response' = NotFound("add_comment", user, path)
         /\ UNCHANGED <<posts, comments, follows, inflight, cache, now>>
    ELSE /\ IF is_valid(request)
            THEN /\ Len(comments) < MaxComments
                 /\ comments' = Append(comments,
                        Comment(user, post_id, request.text, now))
            ELSE UNCHANGED comments
         /\ response' = redirect("add_comment", user, path, PostDetailPath(post_id))
         /\ UNCHANGED <<posts, follows, inflight, cache, now>>

follow_index(user, page) ==
    LET path == FollowIndexPath \o QueryString(page) IN
    /\ response' =
         IF ~login_required(user)
         THEN redirect_to_login("follow_index", user, path)
         ELSE render("follow_index", user, path, "posts/follow.html",
                [EmptyContext EXCEPT !.page_obj =
                    paginator(page,
                              Posts_by_authors(posts, author_set(follows, user)),
                              PAGINATOR_AMOUNT)])
    /\ UNCHANGED <<posts, comments, follows, inflight, cache, now>>

follow_wanted_self(table, user, author) == ~Follow_exists(table, user, author)

follow_wanted_unchecked(table, user, author) == author # user

\* the condition of profile_follow's if
follow_wanted(table, user, author) ==
    author # user /\ ~Follow_exists(table, user, author)

\* Follow.objects.create(user=user, author=author)
Follow_create(table, user, author) ==
    [table EXCEPT ![<<user, author>>] = @ + 1]

Follow_delete_first(table, user, author) ==
    [table EXCEPT ![<<user, author>>] = IF @ > 0 THEN @ - 1 ELSE 0]

\* Follow.objects.filter(user=user, author=author).delete()
Follow_delete(table, user, author) ==
    [table EXCEPT ![<<user, author>>] = 0]

InFlight == LET Sum(f) == f[<<UserOrder[1], UserOrder[1]>>]
                        + f[<<UserOrder[1], UserOrder[2]>>]
                        + f[<<UserOrder[2], UserOrder[1]>>]
                        + f[<<UserOrder[2], UserOrder[2]>>]
            IN  Sum(inflight)

\* profile_follow as one step: no other request runs between its check and
\* its create
profile_follow(user, username) ==
    LET path == ProfileFollowPath(username) IN
    IF ~login_required(user)
    THEN /\ response' = redirect_to_login("profile_follow", user, path)
         /\ UNCHANGED <<posts, comments, follows, inflight, cache, now>>
    ELSE IF ~User_exists(username)
    THEN /\ response' = NotFound("profile_follow", user, path)
         /\ UNCHANGED <<posts, comments, follows, inflight, cache, now>>
    ELSE /\ follows' = IF follow_wanted(follows, user, username)
                       THEN Follow_create(follows, user, username)
                       ELSE follows
         /\ response' = redirect("profile_follow", user, path, ProfilePath(username))
         /\ UNCHANGED <<posts, comments, inflight, cache, now>>

\* profile_follow in two steps, for requests served concurrently: up to the
\* evaluation of the if ...
profile_follow_check(user, username) ==
    LET path == ProfileFollowPath(username) IN
    IF ~login_required(user)
    THEN /\ response' = redirect_to_login("profile_follow", user, path)
         /\ UNCHANGED <<posts, comments, follows, inflight, cache, now>>
    ELSE IF ~User_exists(username)
    THEN /\ response' = NotFound("profile_follow", user, path)
         /\ UNCHANGED <<posts, comments, follows, inflight, cache, now>>
    ELSE IF follow_wanted(follows, user, username)
    THEN /\ InFlight < MaxInFlight
         /\ inflight' = [inflight EXCEPT ![<<user, username>>] = @ + 1]
         /\ UNCHANGED <<posts, comments, follows, cache, now, response>>
    ELSE /\ response' = redirect("profile_follow", user, path, ProfilePath(username))
         /\ UNCHANGED <<posts, comments, follows, inflight, cache, now>>

\* ... and from the create to the redirect
profile_follow_create(user, username) ==
    /\ inflight[<<user, username>>] > 0
    /\ inflight' = [inflight EXCEPT ![<<user, username>>] = @ - 1]
    /\ follows' = Follow_create(follows, user, username)
    /\ response' = redirect("profile_follow", user, ProfileFollowPath(username),
                            ProfilePath(username))
    /\ UNCHANGED <<posts, comments, cache, now>>

profile_unfollow(user, username) ==
    LET path == ProfileUnfollowPath(username) IN
    IF ~login_required(user)
    THEN /\ response' = redirect_to_login("profile_unfollow", user, path)
         /\ UNCHANGED <<posts, comments, follows, inflight, cache, now>>
    ELSE IF ~User_exists(username)
    THEN /\ response' = NotFound("profile_unfollow", user, path)
         /\ UNCHANGED <<posts, comments, follows, inflight, cache, now>>
    ELSE /\ follows' = Follow_delete(follows, user, username)
         /\ response' = redirect("profile_unfollow", user, path, ProfilePath(username))
         /\ UNCHANGED <<posts, comments, inflight, cache, now>>

---------------------------------------------------------------------------
(* The environment: time passes; the cache is cleared (cache.clear()). *)
Tick ==
    /\ now + TickSeconds <= MaxTime
    /\ now' = now + TickSeconds
    /\ UNCHANGED <<posts, comments, follows, inflight, cache, response>>

cache_clear ==
    /\ cache' = [key \in CacheKeys |-> NoEntry]
    /\ UNCHANGED <<posts, comments, follows, inflight, now, response>>

---------------------------------------------------------------------------
(* Specifications.  Each takes the views as defined above and differs in   *)
(* the requests it draws.                                                   *)
ShortForms == {Get, PostData("", NoGroup, NoImage), PostData("text 1", NoGroup, NoImage)}
Reader == {"another_user"}
Author == {"author"}
EditForms == {Get} \cup {PostData(t, NoGroup, NoImage) : t \in Texts}
NoForms == {Get, PostData("", NoGroup, NoImage)}

\* The views that go to the store on every request, requests served
\* concurrently: every client, every URL argument; a submitted form is the
\* shortest valid one, an empty one or none; comments are stored for one
\* user (SpecComment draws them for every user).
Next ==
    \/ \E user \in Clients, slug \in Slugs, page \in FirstPage :
          group_posts(user, slug, page)
    \/ \E user \in Clients, username \in Usernames, page \in FirstPage :
          profile(user, username, page)
    \/ \E user \in Clients, post_id \in PostIds : post_detail(user, post_id)
    \/ \E user \in Clients, request \in ShortForms : post_create(user, request)
    \/ \E user \in Clients, post_id \in PostIds, request \in ShortForms :
          post_edit(user, post_id, request)
    \/ \E user \in Clients, post_id \in PostIds, request \in NoForms :
          add_comment(user, post_id, request)
    \/ \E user \in Reader, post_id \in PostIds, request \in ShortForms :
          add_comment(user, post_id, request)
    \/ \E user \in Clients, page \in FirstPage : follow_index(user, page)
    \/ \E user \in Clients, username \in Usernames :
          profile_follow_check(user, username)
    \/ \E user \in Users, username \in Users : profile_follow_create(user, username)
    \/ \E user \in Clients, username \in Usernames : profile_unfollow(user, username)

Spec == Init /\ [][Next]_vars

\* The same with requests served one at a time: profile_follow is one step.
NextSeq ==
    \/ \E user \in Clients, username \in Usernames, page \in FirstPage :
          profile(user, username, page)
    \/ \E user \in Clients, request \in ShortForms : post_create(user, request)
    \/ \E user \in Clients, page \in FirstPage : follow_index(user, page)
    \/ \E user \in Clients, username \in Usernames : profile_follow(user, username)
    \/ \E user \in Clients, username \in Usernames : profile_unfollow(user, username)

SpecSeq == Init /\ [][NextSeq]_vars

\* Publishing: post_create with every form, and the listings a post shows in.
NextCreate ==
    \/ \E user \in Clients, request \in PostRequests : post_create(user, request)
    \/ \E user \in Reader, page \in FirstPage : index(user, page)
    \/ \E user \in Reader, slug \in Slugs, page \in FirstPage :
          group_posts(user, slug, page)
    \/ \E user \in Reader, username \in Usernames, page \in FirstPage :
          profile(user, username, page)
    \/ cache_clear

SpecCreate == Init /\ [][NextCreate]_vars

\* Editing: post_edit with every form by every user, while time passes.
NextEdit ==
    \/ \E user \in Users, request \in ShortForms : post_create(user, request)
    \/ \E user \in Users, post_id \in PostIds, request \in PostRequests :
          post_edit(user, post_id, request)
    \/ \E user \in Reader, post_id \in PostIds : post_detail(user, post_id)
    \/ Tick

SpecEdit == Init /\ [][NextEdit]_vars

\* The cached index page: index by every client for two URLs, while the
\* author publishes and edits, time passes and the cache is cleared.
NextCache ==
    \/ \E user \in Clients, page \in SitePages : index(user, page)
    \/ \E user \in Author, request \in ShortForms : post_create(user, request)
    \/ \E user \in Author, post_id \in PostIds, request \in EditForms :
          post_edit(user, post_id, request)
    \/ Tick
    \/ cache_clear

SpecCache == Init /\ [][NextCache]_vars

\* Commenting: add_comment by every client with every comment form on every
\* post id, between posts being published and read, while time passes.
NextComment ==
    \/ \E user \in Users, request \in ShortForms : post_create(user, request)
    \/ \E user \in Clients, post_id \in PostIds, request \in CommentRequests :
          add_comment(user, post_id, request)
    \/ \E user \in Reader, post_id \in PostIds : post_detail(user, post_id)
    \/ Tick

SpecComment == Init /\ [][NextComment]_vars

\* The store: every view that writes, by the authenticated users, requests
\* served one at a time, while time passes.
NextStore ==
    \/ \E user \in Users, request \in ShortForms : post_create(user, request)
    \/ \E user \in Users, post_id \in PostIds, request \in EditForms :
          post_edit(user, post_id, request)
    \/ \E user \in Reader, post_id \in PostIds, request \in ShortForms :
          add_comment(user, post_id, request)
    \/ \E user \in Reader, username \in Usernames : profile_follow(user, username)
    \/ \E user \in Reader, username \in Usernames : profile_unfollow(user, username)
    \/ Tick

SpecStore == Init /\ [][NextStore]_vars

\* Missing objects: every view that looks an object up, with the names and
\* ids of objects that exist and of objects that do not, over a store that
\* is being filled.
NextMissing ==
    \/ \E user \in Clients, slug \in Slugs, page \in FirstPage :
          group_posts(user, slug, page)
    \/ \E user \in Clients, username \in Usernames, page \in FirstPage :
          profile(user, username, page)
    \/ \E user \in Clients, post_id \in PostIds : post_detail(user, post_id)
    \/ \E user \in Users, request \in ShortForms : post_create(user, request)
    \/ \E user \in Reader, post_id \in PostIds, request \in ShortForms :
          post_edit(user, post_id, request)
    \/ \E user \in Reader, post_id \in PostIds, request \in ShortForms :
          add_comment(user, post_id, request)
    \/ \E user \in Reader, username \in Usernames : profile_follow(user, username)
    \/ \E user \in Reader, username \in Usernames : profile_unfollow(user, username)

SpecMissing == Init /\ [][NextMissing]_vars

\* Reading: the five views that only read, by every client, between posts
\* being published and follow and unfollow requests served concurrently.
NextRead ==
    \/ \E user \in Clients, page \in FirstPage : index(user, page)
    \/ \E user \in Reader, slug \in Slugs, page \in FirstPage :
          group_posts(user, slug, page)
    \/ \E user \in Clients, username \in Usernames, page \in FirstPage :
          profile(user, username, page)
    \/ \E user \in Reader, post_id \in PostIds : post_detail(user, post_id)
    \/ \E user \in Clients, page \in FirstPage : follow_index(user, page)
    \/ \E user \in Author, request \in ShortForms : post_create(user, request)
    \/ \E user \in Users, username \in Users : profile_follow_check(user, username)
    \/ \E user \in Users, username \in Users : profile_follow_create(user, username)
    \/ \E user \in Users, username \in Users : profile_unfollow(user, username)

SpecRead == Init /\ [][NextRead]_vars

\* Pagination: the listings of a store that holds any number of posts up to
\* MaxListing (bulk-created by one author in one group, with one follower),
\* requested with every page parameter.
BulkPosts(n) ==
    [i \in 1..n |-> Post(i, "author", "text", "test-slug", NoImage, 0)]

InitListing ==
    /\ posts \in {BulkPosts(n) : n \in 0..MaxListing}
    /\ comments = <<>>
    /\ follows = [pair \in Pairs |->
                    IF pair = <<"another_user", "author">> THEN 1 ELSE 0]
    /\ inflight = [pair \in Pairs |-> 0]
    /\ cache = [key \in CacheKeys |-> NoEntry]
    /\ now = 0
    /\ response = Response("none", Anonymous, "", 0, "", "", EmptyContext)

NextListing ==
    \/ \E user \in Reader, page \in IndexPages : index(user, page)
    \/ \E user \in Reader, page \in ListingPages : group_posts(user, "test-slug", page)
    \/ \E user \in Reader, page \in ListingPages : profile(user, "author", page)
    \/ \E user \in Reader, page \in ListingPages : follow_index(user, page)

SpecListing == InitListing /\ [][NextListing]_vars

---------------------------------------------------------------------------
(* Properties. *)
ProtectedViews == {"post_create", "post_edit", "add_comment", "follow_index",
                   "profile_follow", "profile_unfollow"}

AnswersWithLogin(path) ==
    /\ response'.status = 302
    /\ response'.location = "/auth/login/?next=" \o path
    /\ response'.user = Anonymous
    /\ UNCHANGED <<posts, comments, follows, inflight>>

\* C1: a request of an anonymous client for any of the six views behind
\* login_required, in any state, is answered with a redirect to the login
\* page whose next parameter is the requested path, and changes no post, no
\* comment and no follow edge.
C1_AnonymousIsSentToLogin ==
    [][response'.user = Anonymous /\ response'.op \in ProtectedViews =>
       /\ \A request \in ShortForms :
            post_create(Anonymous, request) => AnswersWithLogin("/create/")
       /\ \A post_id \in PostIds, request \in ShortForms :
            /\ post_edit(Anonymous, post_id, request) =>
                 AnswersWithLogin("/posts/" \o ToString(post_id) \o "/edit/")
            /\ add_comment(Anonymous, post_id, request) =>
                 AnswersWithLogin("/posts/" \o ToString(post_id) \o "/comment/")
       /\ \A page \in FirstPage :
            follow_index(Anonymous, page) => AnswersWithLogin("/follow/")
       /\ \A username \in Usernames :
            /\ profile_follow_check(Anonymous, username) =>
                 AnswersWithLogin("/profile/" \o username \o "/follow/")
            /\ profile_unfollow(Anonymous, username) =>
                 AnswersWithLogin("/profile/" \o username \o "/unfollow/")
      ]_vars

\* C1 witness: an anonymous unfollow request was answered while the store
\* holds a post, a comment and a follow edge.
C1_Witness ==
    /\ response.user = Anonymous
    /\ response.op = "profile_unfollow"
    /\ response.status = 302
    /\ Len(posts) > 0
    /\ Len(comments) > 0
    /\ \E pair \in Pairs : follows[pair] > 0


Count(seq, x) == Cardinality({i \in 1..Len(seq) : seq[i] = x})

\* C2: post_edit by an authenticated user who is not the post's author, with
\* any method and form data, redirects to the post's detail page and leaves
\* the post table as it is; the edit page is rendered for the author only; and
\* in any step whatever, a post that changes does so in a post_edit step
\* requested by its author.  (A step is a post_edit of post p by user u when
\* the response it leaves is that of post_edit, to u, for p's edit URL.)
C2_OnlyAuthorEdits ==
    /\ [][/\ \A post_id \in 1..Len(posts) :
                /\ response'.op = "post_edit"
                /\ response'.user \in Users
                /\ response'.user # posts[post_id].author
                /\ response'.path = "/posts/" \o ToString(post_id) \o "/edit/"
                => /\ response'.status = 302
                   /\ response'.location = "/posts/" \o ToString(post_id) \o "/"
                   /\ posts' = posts
          /\ \A post_id \in 1..Len(posts) :
                posts'[post_id] # posts[post_id] =>
                   /\ response'.op = "post_edit"
                   /\ response'.user = posts[post_id].author
                   /\ response'.path = "/posts/" \o ToString(post_id) \o "/edit/"
         ]_vars
    /\ [](response.op = "post_edit" /\ response.status = 200 =>
             /\ Len(response.context.post) = 1
             /\ response.context.post[1].author = response.user)

\* C2 witness: a user who is not the author of an existing post asked for
\* its edit page and was redirected to its detail page.
C2_Witness ==
    \E post_id \in 1..Len(posts) :
        /\ response.op = "post_edit"
        /\ response.path = PostEditPath(post_id)
        /\ response.user \in Users
        /\ response.user # posts[post_id].author
        /\ response.location = PostDetailPath(post_id)

\* C3: with requests interleaved in any way, no Follow edge has its user as
\* its author, no such edge is about to be created, and profile_follow of
\* one's own username creates nothing and redirects to the profile page.
C3_NoSelfFollow ==
    /\ [](\A user \in Users :
             follows[<<user, user>>] = 0 /\ inflight[<<user, user>>] = 0)
    /\ [][response'.op = "profile_follow" =>
            \A user \in Users :
               profile_follow_check(user, user) =>
                  /\ follows' = follows
                  /\ inflight' = inflight
                  /\ response'.status = 302
                  /\ response'.location = "/profile/" \o user \o "/"
         ]_vars

\* C3 witness: a user asked to follow themselves and was redirected to their
\* profile, while they follow somebody else.
C3_Witness ==
    /\ response.op = "profile_follow"
    /\ response.user \in Users
    /\ response.path = ProfileFollowPath(response.user)
    /\ response.location = ProfilePath(response.user)
    /\ \E author \in Users : follows[<<response.user, author>>] > 0

\* C4: with requests served one at a time, every (user, author) pair has at
\* most one Follow edge, and profile_follow for a pair that has an edge
\* leaves the Follow table as it is.
C4_NoDuplicateWhenSequential ==
    /\ [](\A pair \in Pairs : follows[pair] <= 1)
    /\ [][response'.op = "profile_follow" =>
            \A user \in Users, author \in Users :
               follows[<<user, author>>] > 0 /\ profile_follow(user, author) =>
                  follows' = follows
         ]_vars

\* C4 witness: a profile_follow was answered for a pair that has its edge,
\* and the other pair has one too.
C4_Witness ==
    /\ response.op = "profile_follow"
    /\ response.user \in Users
    /\ \E author \in Users :
          /\ response.path = ProfileFollowPath(author)
          /\ follows[<<response.user, author>>] = 1
          /\ follows[<<author, response.user>>] = 1

OtherEdgesUnchanged(user, author) ==
    \A pair \in Pairs : pair # <<user, author>> => follows'[pair] = follows[pair]

\* C5: for users u # a, when a profile_follow of a by u completes there is an
\* edge (u, a); when a profile_unfollow of a by u completes there is none,
\* however many there were; both redirect to a's profile and change no edge
\* of another pair.
C5_FollowUnfollowToggle ==
    [][response'.op \in {"profile_follow", "profile_unfollow"} =>
        \A user \in Users : \A author \in Users \ {user} :
           /\ \/ profile_follow_check(user, author) /\ inflight' = inflight
              \/ profile_follow_create(user, author)
              => /\ follows'[<<user, author>>] >= 1
                 /\ OtherEdgesUnchanged(user, author)
                 /\ response'.status = 302
                 /\ response'.location = "/profile/" \o author \o "/"
           /\ profile_unfollow(user, author)
              => /\ follows'[<<user, author>>] = 0
                 /\ OtherEdgesUnchanged(user, author)
                 /\ response'.status = 302
                 /\ response'.location = "/profile/" \o author \o "/"
      ]_vars

\* C5 witness: an unfollow has completed, its pair has no edge left although
\* a follow of the same pair is still in flight, and the opposite pair holds
\* duplicate edges.
C5_Witness ==
    /\ response.op = "profile_unfollow"
    /\ response.user \in Users
    /\ \E author \in Users \ {response.user} :
          /\ response.path = ProfileUnfollowPath(author)
          /\ follows[<<response.user, author>>] = 0
          /\ inflight[<<response.user, author>>] > 0
          /\ follows[<<author, response.user>>] = 2

\* C6: the posts follow_index shows an authenticated user u are exactly the
\* posts whose author a has a Follow edge (u, a) in the current state, each
\* of them once, however many edges (u, a) there are.
C6_FollowFeed ==
    [][response'.op = "follow_index" =>
        \A user \in Users, page \in FirstPage :
           follow_index(user, page) =>
              LET feed == response'.context.page_obj IN
              /\ \A i \in 1..Len(posts) :
                    Count(feed, posts[i]) =
                       IF follows[<<user, posts[i].author>>] > 0 THEN 1 ELSE 0
              /\ \A k \in 1..Len(feed) : \E i \in 1..Len(posts) : feed[k] = posts[i]
      ]_vars

\* C6 witness: a user who follows an author through two edges got a feed with
\* that author's post in it, and nothing of their own.
C6_Witness ==
    /\ response.op = "follow_index"
    /\ response.user \in Users
    /\ Len(posts) = 2
    /\ posts[1].author # posts[2].author
    /\ Len(response.context.page_obj) = 1
    /\ response.context.page_obj[1].author # response.user
    /\ follows[<<response.user, response.context.page_obj[1].author>>] = 2


NewestFirst(table) == [i \in 1..Len(table) |-> table[Len(table) + 1 - i]]

\* C7: index is cached per URL for 20 seconds and nothing but time or a
\* cache clear invalidates it.  An index request whose URL has an entry that
\* was stored less than 20 seconds ago is answered with the stored content and
\* leaves the cache alone, whatever the posts are now; any other index request
\* is answered from the current posts and stores that answer for 20 seconds;
\* no other step changes an entry except a clear of the whole cache.  So the
\* content of an index response was computed from the posts at most 20
\* seconds earlier.
C7_IndexCachedForTwentySeconds ==
    /\ [][/\ response'.op = "index" =>
              \A user \in Clients, page \in SitePages :
                 index(user, page) =>
                    LET key == "/" \o QueryString(page) IN
                    IF cache[key].stored /\ now < cache[key].expires
                    THEN /\ response'.context = cache[key].context
                         /\ cache' = cache
                    ELSE /\ response'.context.page_obj = NewestFirst(posts)
                         /\ cache'[key].stored
                         /\ cache'[key].context = response'.context
                         /\ cache'[key].expires = now + 20
                         /\ \A other \in CacheKeys \ {key} : cache'[other] = cache[other]
          /\ cache' # cache =>
                \/ /\ response'.op = "index"
                   /\ \A key \in CacheKeys :
                         cache'[key] # cache[key] => key = response'.path
                \/ \A key \in CacheKeys : ~cache'[key].stored
         ]_vars
    /\ [](\A key \in CacheKeys : cache[key].stored => cache[key].expires <= now + 20)

\* C7 witness: an index request was answered from an entry stored 10 seconds
\* earlier, with a page that lacks a post published since.
C7_Witness ==
    /\ response.op = "index"
    /\ cache[response.path].stored
    /\ cache[response.path].expires = now + 10
    /\ response.context = cache[response.path].context
    /\ Len(response.context.page_obj) < Len(posts)

Min(a, b) == IF a < b THEN a ELSE b

PageCount(n) == IF n = 0 THEN 1 ELSE (n + 9) \div 10

\* the posts a listing of n posts, newest first, shows on page p
ExpectedPage(table, p) ==
    [k \in 1..Min(10, Len(table) - 10 * (p - 1)) |->
        table[Len(table) + 1 - (10 * (p - 1) + k)]]

RECURSIVE PagesUpTo(_, _)
PagesUpTo(post_list, p) ==
    IF p = 0 THEN <<>>
    ELSE PagesUpTo(post_list, p - 1) \o paginator(PageInt(p), post_list, PAGINATOR_AMOUNT)

ShowsExpectedPage(page) ==
    LET n == Len(posts) IN
    /\ page.kind = "int" /\ 1 <= page.n /\ page.n <= PageCount(n) =>
          /\ Len(response'.context.page_obj) = Min(10, n - 10 * (page.n - 1))
          /\ response'.context.page_obj = ExpectedPage(posts, page.n)
    /\ page.kind = "absent" => response'.context.page_obj = ExpectedPage(posts, 1)

\* C8: a listing of N posts (index, group_posts, profile, follow_index)
\* requested with a page number p, 1 <= p <= max(1, ceil(N/10)), shows
\* min(10, N - 10(p-1)) posts, those at positions 10(p-1)+1 .. of the listing;
\* without a page parameter it shows page 1; and the pages 1..ceil(N/10) one
\* after the other are the listing, each post once.
C8_Pagination ==
    /\ [][/\ \A page \in IndexPages :
                index("another_user", page) => ShowsExpectedPage(page)
          /\ \A page \in ListingPages :
                /\ group_posts("another_user", "test-slug", page) => ShowsExpectedPage(page)
                /\ profile("another_user", "author", page) => ShowsExpectedPage(page)
                /\ follow_index("another_user", page) => ShowsExpectedPage(page)
         ]_vars
    /\ [](LET n == Len(posts)
              pages == IF n = 0 THEN 0 ELSE (n + 9) \div 10
          IN  /\ PagesUpTo(Post_all(posts), pages) = NewestFirst(posts)
              /\ PagesUpTo(Group_posts(posts, "test-slug"), pages) = NewestFirst(posts)
              /\ PagesUpTo(Author_posts(posts, "author"), pages) = NewestFirst(posts)
              /\ PagesUpTo(Posts_by_authors(posts, author_set(follows, "another_user")),
                           pages) = NewestFirst(posts))

\* C8 witness: page 2 of a listing of 13 posts was shown, with 3 posts.
C8_Witness ==
    /\ Len(posts) = 13
    /\ response.op = "group_posts"
    /\ response.path = "/group/test-slug/?page=2"
    /\ Len(response.context.page_obj) = 3


Submitted(request) == request.method = "POST" /\ request.text # ""

ListedOnce(page_obj, post, listed) ==
    Count(page_obj, post) = IF listed THEN 1 ELSE 0

\* C9: post_create by an authenticated user with a valid form appends exactly
\* one post, with the requester as author and the submitted text, group and
\* image, changes no other post and redirects to the requester's profile; with
\* a form that is not valid (no data, or an empty text) it stores nothing and
\* renders the form again.  A stored post is then listed by index (when the
\* page is not answered from the cache), by the page of its group and of no
\* other group, and by its author's profile.
C9_PostCreate ==
    [][/\ response'.op = "post_create" =>
           \A user \in Users, request \in PostRequests :
              post_create(user, request) =>
                 IF Submitted(request)
                 THEN /\ Len(posts') = Len(posts) + 1
                      /\ SubSeq(posts', 1, Len(posts)) = posts
                      /\ posts'[Len(posts')].id = Len(posts')
                      /\ posts'[Len(posts')].author = user
                      /\ posts'[Len(posts')].text = request.text
                      /\ posts'[Len(posts')].group = request.group
                      /\ posts'[Len(posts')].image = request.image
                      /\ response'.status = 302
                      /\ response'.location = "/profile/" \o user \o "/"
                 ELSE /\ posts' = posts
                      /\ response'.status = 200
                      /\ response'.template = "posts/create_post.html"
       /\ response'.op = "index" =>
           \A page \in FirstPage :
              /\ index("another_user", page)
              /\ ~(cache["/"].stored /\ now < cache["/"].expires)
              => \A i \in 1..Len(posts) :
                    ListedOnce(response'.context.page_obj, posts[i], TRUE)
       /\ response'.op = "group_posts" =>
           \A slug \in Groups, page \in FirstPage :
              group_posts("another_user", slug, page) =>
                 \A i \in 1..Len(posts) :
                    ListedOnce(response'.context.page_obj, posts[i],
                               posts[i].group = slug)
       /\ response'.op = "profile" =>
           \A username \in Users, page \in FirstPage :
              profile("another_user", username, page) =>
                 \A i \in 1..Len(posts) :
                    ListedOnce(response'.context.page_obj, posts[i],
                               posts[i].author = username)
      ]_vars

\* C9 witness: a post with a group and an image was created, the requester
\* was redirected to their profile, and an older post is in the store.
C9_Witness ==
    /\ response.op = "post_create"
    /\ response.status = 302
    /\ Len(posts) = 2
    /\ posts[2].author = response.user
    /\ response.location = ProfilePath(response.user)
    /\ posts[2].group \in Groups
    /\ posts[2].image \in Images
    /\ posts[1].group # posts[2].group

\* C10: a valid post_edit by the post's author keeps the number of posts, the
\* post's id, author and creation time, sets its text to the submitted text
\* and its group to the submitted group, or to none when no group is
\* submitted, leaves every other post as it is, and redirects to the post's
\* detail page.
C10_PostEdit ==
    [][\A post_id \in 1..Len(posts) :
         /\ response'.op = "post_edit"
         /\ response'.user = posts[post_id].author
         /\ response'.path = "/posts/" \o ToString(post_id) \o "/edit/"
         => \A request \in PostRequests :
               Submitted(request) /\ post_edit(posts[post_id].author, post_id, request) =>
                  /\ Len(posts') = Len(posts)
                  /\ posts'[post_id].id = post_id
                  /\ posts'[post_id].author = posts[post_id].author
                  /\ posts'[post_id].created = posts[post_id].created
                  /\ posts'[post_id].text = request.text
                  /\ posts'[post_id].group = request.group
                  /\ \A other \in 1..Len(posts) :
                        other # post_id => posts'[other] = posts[other]
                  /\ response'.status = 302
                  /\ response'.location = "/posts/" \o ToString(post_id) \o "/"
      ]_vars

\* C10 witness: an author's edit was saved some time after the post was
\* created; the post carries the second text, an image from an earlier edit,
\* and no group; another post is in the store.
C10_Witness ==
    /\ response.op = "post_edit"
    /\ response.status = 302
    /\ Len(posts) = 2
    /\ \E post_id \in 1..Len(posts) :
          /\ response.path = PostEditPath(post_id)
          /\ response.user = posts[post_id].author
          /\ posts[post_id].text = "text 2"
          /\ posts[post_id].group = NoGroup
          /\ posts[post_id].image \in Images
          /\ posts[post_id].created < now

CommentsOf(table, post_id) == {i \in 1..Len(table) : table[i].post = post_id}

\* C11: add_comment by an authenticated user on an existing post with a valid
\* form gives that post exactly one more comment, whose author is the
\* requester, whose post is the target and whose text is the submitted one,
\* and leaves every comment already stored, of that post and of every other,
\* as it is; with a form that is not valid (no data, an empty text, a GET) it
\* stores nothing.  Either way the response is a redirect to the post's detail
\* page, and post_detail lists exactly the comments stored for its post, in
\* the order they were added.
C11_AddComment ==
    [][/\ response'.op = "add_comment" /\ response'.status = 302 =>
           \A post_id \in 1..Len(posts) :
              response'.path = "/posts/" \o ToString(post_id) \o "/comment/" =>
                 \A user \in Users, request \in CommentRequests :
                    add_comment(user, post_id, request) =>
                       /\ response'.location = "/posts/" \o ToString(post_id) \o "/"
                       /\ posts' = posts
                       /\ follows' = follows
                       /\ IF Submitted(request)
                          THEN /\ Len(comments') = Len(comments) + 1
                               /\ SubSeq(comments', 1, Len(comments)) = comments
                               /\ comments'[Len(comments')].author = user
                               /\ comments'[Len(comments')].post = post_id
                               /\ comments'[Len(comments')].text = request.text
                               /\ Cardinality(CommentsOf(comments', post_id))
                                    = Cardinality(CommentsOf(comments, post_id)) + 1
                               /\ \A other \in PostIds \ {post_id} :
                                     CommentsOf(comments', other)
                                       = CommentsOf(comments, other)
                          ELSE comments' = comments
       /\ response'.op = "post_detail" /\ response'.status = 200 =>
           \A post_id \in 1..Len(posts) :
              post_detail("another_user", post_id) =>
                 LET listed == response'.context.comments IN
                 /\ Len(listed) = Cardinality(CommentsOf(comments, post_id))
                 /\ \A i \in 1..Len(listed) :
                       \E k \in CommentsOf(comments, post_id) :
                          /\ listed[i] = comments[k]
                          /\ Cardinality({j \in CommentsOf(comments, post_id) : j < k})
                               = i - 1
      ]_vars

\* C11 witness: the detail page of a post shows the comment just added to it
\* by the other user, and not the older comment of the other post.
C11_Witness ==
    /\ response.op = "post_detail"
    /\ response.status = 200
    /\ Len(posts) = 2
    /\ Len(comments) = 2
    /\ comments[1].post # comments[2].post
    /\ response.path = PostDetailPath(comments[2].post)
    /\ response.context.comments = <<comments[2]>>
    /\ comments[2].author # posts[comments[2].post].author
    /\ comments[2].text = "text 2"
    /\ comments[2].created > comments[1].created

\* C12: a Follow row is added only by the create of a profile_follow request
\* whose existence check has passed, one row at a time; that check passes only
\* while the pair has no row, and nothing takes the requests back between the
\* check and the create.  So a pair gets a second row only when a second
\* request passed its check before the first one's create, and no step of any
\* other view (post_create, post_edit, add_comment, profile_unfollow, the
\* read-only views) adds a row or lets a check pass.
C12_DuplicateOnlyByRace ==
    [][\A user \in Users : \A author \in Users :
         LET pair == <<user, author>> IN
         /\ follows'[pair] > follows[pair] =>
               /\ profile_follow_create(user, author)
               /\ follows'[pair] = follows[pair] + 1
               /\ inflight[pair] > 0
               /\ inflight'[pair] = inflight[pair] - 1
         /\ inflight'[pair] > inflight[pair] =>
               /\ profile_follow_check(user, author)
               /\ follows[pair] = 0
               /\ follows' = follows
               /\ user # author
         /\ inflight'[pair] < inflight[pair] => follows'[pair] > follows[pair]
         /\ follows'[pair] > 1 => follows[pair] > 0 \/ inflight[pair] > 1
      ]_vars

\* C12 witness: two profile_follow requests of one user for one author have
\* both completed, both having passed the check before either created its row:
\* the pair holds two rows and no request is in flight.
C12_Witness ==
    /\ follows[<<"another_user", "author">>] = 2
    /\ follows[<<"author", "another_user">>] = 0
    /\ InFlight = 0
    /\ response.op = "profile_follow"
    /\ response.user = "another_user"
    /\ response.location = ProfilePath("author")

ShowsPage(p) ==
    /\ response'.status = 200
    /\ response'.context.page_obj = ExpectedPage(posts, p)

OutOfRange(page) ==
    page.kind = "int" /\ (page.n < 1 \/ page.n > PageCount(Len(posts)))

\* C13: a listing of N posts has P = max(1, ceil(N/10)) pages; requested with
\* a page number greater than P, or with one less than 1 (0 or negative), it
\* shows page P, the last page; an empty listing shows one empty page for
\* every page parameter, and no error.
C13_OutOfRangePage ==
    [][/\ \A page \in IndexPages :
             index("another_user", page) =>
                /\ OutOfRange(page) => ShowsPage(PageCount(Len(posts)))
                /\ Len(posts) = 0 => ShowsPage(1) /\ response'.context.page_obj = <<>>
       /\ \A page \in ListingPages :
             \/ group_posts("another_user", "test-slug", page)
             \/ profile("another_user", "author", page)
             \/ follow_index("another_user", page)
             => /\ OutOfRange(page) => ShowsPage(PageCount(Len(posts)))
                /\ Len(posts) = 0 => ShowsPage(1) /\ response'.context.page_obj = <<>>
      ]_vars

\* C13 witness: page 0 of the profile listing of 23 posts was requested and
\* the last page, with the 3 oldest posts, was shown.
C13_Witness ==
    /\ Len(posts) = 23
    /\ response.op = "profile"
    /\ response.path = "/profile/author/?page=0"
    /\ response.status = 200
    /\ Len(response.context.page_obj) = 3
    /\ response.context.page_obj[3].id = 1

\* C13 as claimed: a page number greater than P shows page P and a page number
\* less than 1 shows page 1, the nearest valid page.
C13_ClampsToNearestPage ==
    [][\A page \in ListingPages :
          \/ group_posts("another_user", "test-slug", page)
          \/ profile("another_user", "author", page)
          \/ follow_index("another_user", page)
          => /\ page.kind = "int" /\ page.n > PageCount(Len(posts)) =>
                   ShowsPage(PageCount(Len(posts)))
             /\ page.kind = "int" /\ page.n < 1 => ShowsPage(1)
      ]_vars

\* C14: no step of the application removes a post or a comment or changes a
\* stored comment: every post of a state is in the next state under the same
\* id with the author and creation time it was created with, and every
\* comment of a state is in the next state with its author, post, text and
\* creation time.
C14_NothingDeleted ==
    [][/\ Len(posts') >= Len(posts)
       /\ \A i \in 1..Len(posts) :
             /\ posts'[i].id = posts[i].id
             /\ posts'[i].author = posts[i].author
             /\ posts'[i].created = posts[i].created
       /\ Len(comments') >= Len(comments)
       /\ \A k \in 1..Len(comments) :
             /\ comments'[k].author = comments[k].author
             /\ comments'[k].post = comments[k].post
             /\ comments'[k].text = comments[k].text
             /\ comments'[k].created = comments[k].created
      ]_vars

\* C14 witness: a post was edited by its author after it had been commented
\* and after time had passed; it holds the second text and its creation time,
\* the comment is as it was added, and the store holds two posts, two
\* comments and a follow edge.
C14_Witness ==
    /\ response.op = "post_edit"
    /\ response.status = 302
    /\ response.path = PostEditPath(1)
    /\ Len(posts) = 2
    /\ posts[1].text = "text 2"
    /\ posts[1].created < posts[2].created
    /\ Len(comments) = 2
    /\ comments[1].post = 1
    /\ comments[1].created < now
    /\ comments[1].created < comments[2].created
    /\ follows[<<"another_user", "author">>] = 1

StoreUnchanged == posts' = posts /\ comments' = comments /\ follows' = follows

IsNotFound == response'.status = 404 /\ response'.template = "core/404.html"

\* C15: a request that names an object that is not in the store is answered
\* with the 404 page and changes no post, comment or follow edge: group_posts
\* with an unknown slug, profile, profile_follow and profile_unfollow with an
\* unknown username, post_detail, post_edit and add_comment with an unknown
\* post id (the protected ones for an authenticated requester).  So every
\* stored comment is the comment of a stored post, and every follow edge
\* joins two existing users.
C15_MissingObjectIs404 ==
    /\ [][/\ response'.status = 404 => StoreUnchanged
          /\ response'.op = "group_posts" =>
                \A user \in Clients, slug \in Slugs \ Groups, page \in FirstPage :
                   group_posts(user, slug, page) => IsNotFound /\ StoreUnchanged
          /\ response'.op = "profile" =>
                \A user \in Clients, username \in Usernames \ Users, page \in FirstPage :
                   profile(user, username, page) => IsNotFound /\ StoreUnchanged
          /\ response'.op = "post_detail" =>
                \A user \in Clients, post_id \in PostIds \ (1..Len(posts)) :
                   post_detail(user, post_id) => IsNotFound /\ StoreUnchanged
          /\ response'.op = "post_edit" =>
                \A user \in Users, post_id \in PostIds \ (1..Len(posts)),
                   request \in ShortForms :
                   post_edit(user, post_id, request) => IsNotFound /\ StoreUnchanged
          /\ response'.op = "add_comment" =>
                \A user \in Users, post_id \in PostIds \ (1..Len(posts)),
                   request \in ShortForms :
                   add_comment(user, post_id, request) => IsNotFound /\ StoreUnchanged
          /\ response'.op = "profile_follow" =>
                \A user \in Users, username \in Usernames \ Users :
                   profile_follow(user, username) => IsNotFound /\ StoreUnchanged
          /\ response'.op = "profile_unfollow" =>
                \A user \in Users, username \in Usernames \ Users :
                   profile_unfollow(user, username) => IsNotFound /\ StoreUnchanged
         ]_vars
    /\ [](/\ \A k \in 1..Len(comments) :
               \E i \in 1..Len(posts) : posts[i].id = comments[k].post
          /\ \A pair \in DOMAIN follows :
               follows[pair] > 0 => pair[1] \in Users /\ pair[2] \in Users)

\* C15 witness: an authenticated user's comment on a post id that is not in
\* the store was answered with the 404 page, the store holding two posts, a
\* comment and a follow edge.
C15_Witness ==
    /\ response.op = "add_comment"
    /\ response.user = "another_user"
    /\ response.status = 404
    /\ response.path = AddCommentPath(Len(posts) + 1)
    /\ Len(posts) = 2
    /\ Len(comments) = 1
    /\ follows[<<"another_user", "author">>] = 1

ReadOnlyViews == {"index", "group_posts", "profile", "post_detail", "follow_index"}

\* C16: the `following` flag of the profile page is true exactly when the
\* requester is authenticated and the store holds at least one Follow edge
\* (requester, profile's author); so it is false for an anonymous requester,
\* for a user with no edge to the author (never followed, or unfollowed) and
\* for a user on their own profile, no user having an edge to themselves.
\* The views that only read (index, group_posts, profile, post_detail,
\* follow_index) leave posts, comments and follow edges as they are.
C16_FollowingFlag ==
    /\ [][response'.op \in ReadOnlyViews =>
            /\ \A user \in Clients, username \in Users, page \in FirstPage :
                  profile(user, username, page) =>
                     /\ response'.status = 200
                     /\ response'.context.following
                          = (user \in Users /\ follows[<<user, username>>] >= 1)
                     /\ user = Anonymous => ~response'.context.following
                     /\ user = username => ~response'.context.following
                     /\ StoreUnchanged
            /\ \A user \in Clients, page \in FirstPage :
                  index(user, page) \/ follow_index(user, page) => StoreUnchanged
            /\ \A user \in Reader, slug \in Slugs, page \in FirstPage :
                  group_posts(user, slug, page) => StoreUnchanged
            /\ \A user \in Reader, post_id \in PostIds :
                  post_detail(user, post_id) => StoreUnchanged
         ]_vars
    /\ [](\A user \in Users : follows[<<user, user>>] = 0)

\* C16 witness: a user who follows the author through two edges looked at the
\* author's profile and was shown following = true, after the author's own
\* follow of that user had been undone.
C16_Witness ==
    /\ response.op = "profile"
    /\ response.user = "another_user"
    /\ response.path = ProfilePath("author")
    /\ response.context.following
    /\ follows[<<"another_user", "author">>] = 2
    /\ follows[<<"author", "another_user">>] = 0
    /\ Len(posts) = 1
    /\ cache[IndexPath].stored

====
